---- MODULE Spec2Model ----
(***************************************************************************)
(* ServerlessLambdaContext of aws_xray_sdk/core/serverless_lambda_context  *)
(* as a state machine: the thread-local entity stack, the Lambda facade    *)
(* segment and its subsegment list, and the context-missing strategy.      *)
(***************************************************************************)
EXTENDS Integers, Sequences, FiniteSets, TLC

\* ------------------------------------------------------------------ bounds
MaxSeg == 2      \* Segment objects the caller constructs in one run
MaxObj == 3      \* MimicSegment / Subsegment objects constructed in one run
MaxTrace == 2    \* trace headers (facade generations) the container hands out

SegIds == 1..MaxSeg
Strategies == {"RUNTIME_ERROR", "LOG_ERROR", "IGNORE_ERROR"}

\* ------------------------------------------------------------- entities
NoRef == <<"None", 0>>
None == [kind |-> "None", id |-> 0, wraps |-> 0, parent |-> NoRef]
Ref(e) == <<e.kind, e.id>>

SegmentOf(s) == [kind |-> "Segment", id |-> s, wraps |-> 0, parent |-> NoRef]
FacadeSegment(f) == [kind |-> "Facade", id |-> f, wraps |-> 0, parent |-> NoRef]
\* MimicSegment(parent_facade_segment, segment): a new object wrapping segment
MimicSegment(id, f, s) ==
    [kind |-> "Mimic", id |-> id, wraps |-> s, parent |-> <<"Facade", f>>]
Subsegment(id, p) == [kind |-> "Subsegment", id |-> id, wraps |-> 0, parent |-> p]

VARIABLES
    context_missing,  \* self._context_missing
    header,           \* trace header the Lambda container currently exposes
    segment,          \* id of self._local.segment (0: no facade created yet)
    subsegments,      \* self._local.segment.subsegments
    entities,         \* self._local.entities, last element is the current entity
    closed,           \* closed entities the context still references
    nextId,           \* identity of the next object constructed
    segs,             \* number of Segment objects the caller has constructed
    last,             \* outcome of the last public operation
    opened,           \* history: entities opened and not closed since, in order
    setUsed,          \* history: set_trace_entity has been called
    c3,               \* history: put_segment directly followed by end_segment
    c4,               \* history: segment / balanced subsegments / end_segment
    c8,               \* history: balanced run of put_subsegment/end_subsegment
    construction      \* history: what __init__ was given, until the first call

prog == <<context_missing, header, segment, subsegments, entities, closed,
          nextId, segs>>
hist == <<last, opened, setUsed, c3, c4, c8, construction>>
vars == <<prog, hist>>

\* pre: number of subsegments the facade held when set_trace_entity was called
Outcome(op, arg, ret, flag, raised, logged, missing, pre) ==
    [op |-> op, arg |-> arg, ret |-> ret, flag |-> flag, raised |-> raised,
     logged |-> logged, missing |-> missing, pre |-> pre]

\* ------------------------------------------------- sequences of entities
RECURSIVE Count(_, _)
Count(seq, e) ==
    IF seq = <<>> THEN 0
    ELSE (IF Head(seq) = e THEN 1 ELSE 0) + Count(Tail(seq), e)

Contains(seq, e) == \E i \in 1..Len(seq) : seq[i] = e

Range(seq) == {seq[i] : i \in 1..Len(seq)}

\* Entity.add_subsegment on the facade segment
add_subsegment(subs, e) == Append(subs, e)

\* Entity.remove_subsegment on the facade segment: drops the first occurrence
RECURSIVE remove_subsegment(_, _)
remove_subsegment(subs, e) ==
    IF subs = <<>> THEN <<>>
    ELSE IF Head(subs) = e THEN Tail(subs)
    ELSE <<Head(subs)>> \o remove_subsegment(Tail(subs), e)

\* ------------------------------------------------ facade refresh (base)
\* LambdaContext._refresh_context: keeps the facade of the current trace
\* header, creates a new one (without subsegments) when the header changed.
RefreshedSegment(seg, hdr) == IF seg # hdr THEN hdr ELSE seg
RefreshedSubsegments(seg, hdr, subs) == IF seg # hdr THEN <<>> ELSE subs

\* ------------------------------------------------- base Context (stack)
Context_put_segment(ents, e) == Append(ents, e)

Context_get_trace_entity(ents) == IF ents = <<>> THEN None ELSE ents[Len(ents)]

Context_pop(ents) == IF ents = <<>> THEN <<>> ELSE SubSeq(ents, 1, Len(ents) - 1)

Context_set_trace_entity(ents, e) == <<e>>

Context_is_subsegment(e) == e.kind \in {"Subsegment", "Mimic"}

\* Context.handle_context_missing
Context_handle_context_missing(strategy) ==
    [ret |-> None,
     raised |-> (strategy = "RUNTIME_ERROR"),
     logged |-> (strategy = "LOG_ERROR"),
     missing |-> TRUE]

\* ------------------------------------------- ServerlessLambdaContext
\* variant: the environment value is not looked at
init_strategy_default(env, dflt) == dflt

\* __init__: os.getenv(CXT_MISSING_STRATEGY_KEY, context_missing)
init_strategy(env, dflt) == IF env # "unset" THEN env ELSE dflt

\* context_missing (property getter)
context_missing_getter == context_missing

\* variant: the mimic segment is not excluded
_is_subsegment_base(e) == Context_is_subsegment(e)

\* variant: the base classification is not consulted
_is_subsegment_typeonly(e) == e.kind # "Mimic"

_is_subsegment(e) == Context_is_subsegment(e) /\ e.kind # "Mimic"

\* variant: hands the empty result back without consulting the strategy
get_trace_entity_none(ents, strategy) ==
    [ret |-> Context_get_trace_entity(ents), raised |-> FALSE,
     logged |-> FALSE, missing |-> FALSE]

\* variant: an empty stack raises whatever the strategy
get_trace_entity_raise(ents, strategy) ==
    LET entity == Context_get_trace_entity(ents) IN
    IF entity = None
    THEN [ret |-> None, raised |-> TRUE, logged |-> FALSE, missing |-> TRUE]
    ELSE [ret |-> entity, raised |-> FALSE, logged |-> FALSE, missing |-> FALSE]

get_trace_entity(ents, strategy) ==
    LET entity == Context_get_trace_entity(ents) IN
    IF entity = None
    THEN Context_handle_context_missing(strategy)
    ELSE [ret |-> entity, raised |-> FALSE, logged |-> FALSE, missing |-> FALSE]

\* variant: the mimic segment is not appended to the facade's subsegments
put_segment_noadd(s) ==
    LET parent_facade_segment == RefreshedSegment(segment, header)
        mimic_segment == MimicSegment(nextId, parent_facade_segment, s)
    IN [seg |-> parent_facade_segment,
        subs |-> RefreshedSubsegments(segment, header, subsegments),
        ents |-> Context_put_segment(entities, mimic_segment),
        closed |-> closed,
        ret |-> mimic_segment, flag |-> "none",
        raised |-> FALSE, logged |-> FALSE, missing |-> FALSE]

\* variant: the mimic segment replaces the stack instead of being pushed
put_segment_reset(s) ==
    LET parent_facade_segment == RefreshedSegment(segment, header)
        mimic_segment == MimicSegment(nextId, parent_facade_segment, s)
    IN [seg |-> parent_facade_segment,
        subs |-> add_subsegment(
                     RefreshedSubsegments(segment, header, subsegments),
                     mimic_segment),
        ents |-> <<mimic_segment>>,
        closed |-> closed,
        ret |-> mimic_segment, flag |-> "none",
        raised |-> FALSE, logged |-> FALSE, missing |-> FALSE]

\* variant: the facade is taken from self._local without a refresh
put_segment_stale(s) ==
    LET mimic_segment == MimicSegment(nextId, segment, s)
    IN [seg |-> segment,
        subs |-> add_subsegment(subsegments, mimic_segment),
        ents |-> Context_put_segment(entities, mimic_segment),
        closed |-> closed,
        ret |-> mimic_segment, flag |-> "none",
        raised |-> FALSE, logged |-> FALSE, missing |-> FALSE]

\* put_segment(segment): the state after the call and what it installed
put_segment(s) ==
    LET parent_facade_segment == RefreshedSegment(segment, header)
        mimic_segment == MimicSegment(nextId, parent_facade_segment, s)
    IN [seg |-> parent_facade_segment,
        subs |-> add_subsegment(
                     RefreshedSubsegments(segment, header, subsegments),
                     mimic_segment),
        ents |-> Context_put_segment(entities, mimic_segment),
        closed |-> closed,
        ret |-> mimic_segment, flag |-> "none",
        raised |-> FALSE, logged |-> FALSE, missing |-> FALSE]

\* Context.end_segment: marks the current entity closed and pops it
Context_end_segment(ents, cl) ==
    IF ents = <<>> THEN [ents |-> ents, closed |-> cl]
    ELSE [ents |-> Context_pop(ents),
          closed |-> cl \cup {Context_get_trace_entity(ents)}]

\* variant: the closed mimic segment stays in the facade's subsegments
end_segment_keep ==
    LET got == get_trace_entity(entities, context_missing)
        base == Context_end_segment(entities, closed)
    IN IF got.raised
       THEN [seg |-> segment, subs |-> subsegments, ents |-> entities,
             closed |-> closed, ret |-> None, flag |-> "none",
             raised |-> TRUE, logged |-> got.logged, missing |-> got.missing]
       ELSE [seg |-> segment, subs |-> subsegments,
             ents |-> base.ents, closed |-> base.closed,
             ret |-> got.ret, flag |-> "none",
             raised |-> FALSE, logged |-> got.logged, missing |-> got.missing]

\* variant: the facade is refreshed but the closed mimic segment is not
\* removed from its subsegments
end_segment_noremove ==
    LET got == get_trace_entity(entities, context_missing)
        mimic_segment == got.ret
        base == Context_end_segment(entities, closed)
    IN IF got.raised
       THEN [seg |-> segment, subs |-> subsegments, ents |-> entities,
             closed |-> closed, ret |-> None, flag |-> "none",
             raised |-> TRUE, logged |-> got.logged, missing |-> got.missing]
       ELSE IF mimic_segment.kind = "Mimic"
       THEN [seg |-> RefreshedSegment(segment, header),
             subs |-> RefreshedSubsegments(segment, header, subsegments),
             ents |-> base.ents, closed |-> base.closed,
             ret |-> mimic_segment, flag |-> "none",
             raised |-> FALSE, logged |-> got.logged, missing |-> got.missing]
       ELSE [seg |-> segment, subs |-> subsegments,
             ents |-> base.ents, closed |-> base.closed,
             ret |-> mimic_segment, flag |-> "none",
             raised |-> FALSE, logged |-> got.logged, missing |-> got.missing]

\* variant: the removal from the facade is tried whatever was closed
end_segment_untyped ==
    LET got == get_trace_entity(entities, context_missing)
        base == Context_end_segment(entities, closed)
    IN IF got.raised
       THEN [seg |-> segment, subs |-> subsegments, ents |-> entities,
             closed |-> closed, ret |-> None, flag |-> "none",
             raised |-> TRUE, logged |-> got.logged, missing |-> got.missing]
       ELSE [seg |-> RefreshedSegment(segment, header),
             subs |-> remove_subsegment(
                          RefreshedSubsegments(segment, header, subsegments),
                          got.ret),
             ents |-> base.ents, closed |-> base.closed,
             ret |-> got.ret, flag |-> "none",
             raised |-> FALSE, logged |-> got.logged, missing |-> got.missing]

\* end_segment(end_time)
end_segment ==
    LET got == get_trace_entity(entities, context_missing)
        mimic_segment == got.ret
        base == Context_end_segment(entities, closed)
    IN IF got.raised
       THEN [seg |-> segment, subs |-> subsegments, ents |-> entities,
             closed |-> closed, ret |-> None, flag |-> "none",
             raised |-> TRUE, logged |-> got.logged, missing |-> got.missing]
       ELSE IF mimic_segment.kind = "Mimic"
       THEN [seg |-> RefreshedSegment(segment, header),
             subs |-> remove_subsegment(
                          RefreshedSubsegments(segment, header, subsegments),
                          mimic_segment),
             ents |-> base.ents, closed |-> base.closed,
             ret |-> mimic_segment, flag |-> "none",
             raised |-> FALSE, logged |-> got.logged, missing |-> got.missing]
       ELSE [seg |-> segment, subs |-> subsegments,
             ents |-> base.ents, closed |-> base.closed,
             ret |-> mimic_segment, flag |-> "none",
             raised |-> FALSE, logged |-> got.logged, missing |-> got.missing]

\* Context.put_subsegment: the subsegment becomes a child of the current
\* entity (if any) and the new current entity
Context_put_subsegment(ents, subs, seg, sub) ==
    LET entity == Context_get_trace_entity(ents)
        child == Subsegment(sub.id, IF entity = None THEN NoRef ELSE Ref(entity))
    IN [ents |-> Append(ents, child),
        subs |-> IF entity = FacadeSegment(seg) /\ seg # 0
                 THEN add_subsegment(subs, child) ELSE subs,
        child |-> child]

\* variant: the subsegment is not handed to the base context
put_subsegment_discard(sub) ==
    [seg |-> segment, subs |-> subsegments, ents |-> entities,
     closed |-> closed, ret |-> sub, flag |-> "none",
     raised |-> FALSE, logged |-> FALSE, missing |-> FALSE]

\* put_subsegment(subsegment)
put_subsegment(sub) ==
    LET base == Context_put_subsegment(entities, subsegments, segment, sub)
    IN [seg |-> segment, subs |-> base.subs, ents |-> base.ents,
        closed |-> closed, ret |-> base.child, flag |-> "none",
        raised |-> FALSE, logged |-> FALSE, missing |-> FALSE]

\* Context.end_subsegment: closes and pops the current entity when
\* self._is_subsegment classifies it as a subsegment
Context_end_subsegment(ents, cl) ==
    LET subsegment == Context_get_trace_entity(ents) IN
    IF _is_subsegment(subsegment)
    THEN [ents |-> Context_pop(ents), closed |-> cl \cup {subsegment},
          ret |-> subsegment, flag |-> "true"]
    ELSE [ents |-> ents, closed |-> cl, ret |-> None, flag |-> "false"]

\* variant: the result of the base call is not returned
end_subsegment_noreturn ==
    LET base == Context_end_subsegment(entities, closed)
    IN [seg |-> segment, subs |-> subsegments, ents |-> base.ents,
        closed |-> base.closed, ret |-> base.ret, flag |-> "false",
        raised |-> FALSE, logged |-> FALSE, missing |-> FALSE]

\* variant: reads the current entity through get_trace_entity first
end_subsegment_checked ==
    LET got == get_trace_entity(entities, context_missing)
        base == Context_end_subsegment(entities, closed)
    IN IF got.raised
       THEN [seg |-> segment, subs |-> subsegments, ents |-> entities,
             closed |-> closed, ret |-> None, flag |-> "none",
             raised |-> TRUE, logged |-> got.logged, missing |-> got.missing]
       ELSE [seg |-> segment, subs |-> subsegments, ents |-> base.ents,
             closed |-> base.closed, ret |-> base.ret, flag |-> base.flag,
             raised |-> FALSE, logged |-> got.logged, missing |-> got.missing]

\* end_subsegment(end_time)
end_subsegment ==
    LET base == Context_end_subsegment(entities, closed)
    IN [seg |-> segment, subs |-> subsegments, ents |-> base.ents,
        closed |-> base.closed, ret |-> base.ret, flag |-> base.flag,
        raised |-> FALSE, logged |-> FALSE, missing |-> FALSE]

\* variant: the entity is appended to the facade's subsegments
set_trace_entity_append(trace_entity) ==
    LET mimic_segment ==
            IF trace_entity.kind = "Segment"
            THEN MimicSegment(nextId, RefreshedSegment(segment, header),
                              trace_entity.id)
            ELSE trace_entity
    IN [seg |-> RefreshedSegment(segment, header),
        subs |-> add_subsegment(
                     RefreshedSubsegments(segment, header, subsegments),
                     mimic_segment),
        ents |-> Context_set_trace_entity(entities, mimic_segment),
        closed |-> closed, ret |-> mimic_segment, flag |-> "none",
        raised |-> FALSE, logged |-> FALSE, missing |-> FALSE]

\* variant: every kind of segment is converted (isinstance instead of type ==)
set_trace_entity_isinstance(trace_entity) ==
    LET mimic_segment ==
            IF trace_entity.kind \in {"Segment", "Facade"}
            THEN MimicSegment(nextId, RefreshedSegment(segment, header),
                              trace_entity.id)
            ELSE trace_entity
    IN [seg |-> RefreshedSegment(segment, header),
        subs |-> <<mimic_segment>>,
        ents |-> Context_set_trace_entity(entities, mimic_segment),
        closed |-> closed, ret |-> mimic_segment, flag |-> "none",
        raised |-> FALSE, logged |-> FALSE, missing |-> FALSE]

\* set_trace_entity(trace_entity)
set_trace_entity(trace_entity) ==
    LET mimic_segment ==
            IF trace_entity.kind = "Segment"
            THEN MimicSegment(nextId, RefreshedSegment(segment, header),
                              trace_entity.id)
            ELSE trace_entity
    IN [seg |-> RefreshedSegment(segment, header),
        subs |-> <<mimic_segment>>,
        ents |-> Context_set_trace_entity(entities, mimic_segment),
        closed |-> closed, ret |-> mimic_segment, flag |-> "none",
        raised |-> FALSE, logged |-> FALSE, missing |-> FALSE]

\* the Segment objects a caller can pass: one constructed earlier, or a new one
SegInputs == {s \in SegIds : s <= segs + 1}

\* ------------------------------------------------------------ histories
Top(ents) == Context_get_trace_entity(ents)

\* the opened entities without those the call with effect r marked closed
StillOpen(r) ==
    IF setUsed THEN <<>>
    ELSE SelectSeq(opened, LAMBDA e : e \notin (r.closed \ closed))

C3Off == [phase |-> 0, pre |-> <<>>, proj |-> None]
C4Off == [phase |-> "off", proj |-> None, bal |-> 0, n |-> 0, ok |-> TRUE]
C8Off == [on |-> FALSE, depth |-> 0, cur |-> None, bal |-> 0, n |-> 0]
Called == [live |-> FALSE, env |-> "unset", dflt |-> "unset"]

Init ==
    /\ \E env \in Strategies \cup {"unset"}, dflt \in Strategies :
          /\ construction = [live |-> TRUE, env |-> env, dflt |-> dflt]
          /\ context_missing = init_strategy(env, dflt)
    /\ header = 1
    /\ segment = 0
    /\ subsegments = <<>>
    /\ entities = <<>>
    /\ closed = {}
    /\ nextId = 1
    /\ segs = 0
    /\ last = Outcome("init", None, None, "none", FALSE, FALSE, FALSE, 0)
    /\ opened = <<>>
    /\ setUsed = FALSE
    /\ c3 = C3Off
    /\ c4 = C4Off
    /\ c8 = C8Off

\* the entity the previous call closed; the caller may still hold it
JustClosed ==
    IF /\ last.op \in {"end_segment", "end_subsegment"}
       /\ last.ret.kind \in {"Mimic", "Subsegment"}
    THEN {last.ret} ELSE {}

\* the program state and the outcome after a call with effect r; of the
\* closed entities, those the context still refers to are kept
Apply(op, arg, r) ==
    /\ segment' = r.seg
    /\ subsegments' = r.subs
    /\ entities' = r.ents
    /\ closed' = (r.closed \cup JustClosed)
                     \cap (Range(r.ents) \cup Range(r.subs))
    /\ last' = Outcome(op, arg, r.ret, r.flag, r.raised, r.logged, r.missing,
                       IF op = "set_trace_entity" THEN Len(subsegments) ELSE 0)
    /\ construction' = Called

OpenSegment(s) ==
    /\ nextId <= MaxObj
    /\ LET r == put_segment(s) IN
       /\ Apply("put_segment", SegmentOf(s), r)
       /\ opened' = IF setUsed THEN <<>> ELSE Append(opened, r.ret)
       /\ c3' = [phase |-> 1, pre |-> entities, proj |-> r.ret]
       /\ c4' = IF entities = <<>>
                   /\ RefreshedSubsegments(segment, header, subsegments) = <<>>
                THEN [phase |-> "run", proj |-> r.ret, bal |-> 0, n |-> 0,
                      ok |-> TRUE]
                ELSE C4Off
    /\ nextId' = nextId + 1
    /\ segs' = IF s > segs THEN s ELSE segs
    /\ c8' = C8Off
    /\ UNCHANGED <<context_missing, header, setUsed>>

CloseSegment ==
    /\ LET r == end_segment IN
       /\ Apply("end_segment", None, r)
       /\ c3' = IF c3.phase = 1 THEN [c3 EXCEPT !.phase = 2] ELSE C3Off
       /\ c4' = IF c4.phase = "run" /\ c4.bal = 0
                THEN [c4 EXCEPT !.phase = "done"] ELSE C4Off
    /\ c8' = C8Off
    /\ opened' = StillOpen(end_segment)
    /\ UNCHANGED <<context_missing, header, nextId, segs, setUsed>>

OpenSubsegment ==
    /\ nextId <= MaxObj
    /\ LET r == put_subsegment(Subsegment(nextId, NoRef)) IN
       /\ Apply("put_subsegment", Subsegment(nextId, NoRef), r)
       /\ opened' = IF setUsed THEN <<>> ELSE Append(opened, r.ret)
    /\ nextId' = nextId + 1
    /\ c3' = C3Off
    /\ c4' = IF c4.phase = "run" THEN [c4 EXCEPT !.bal = @ + 1, !.n = @ + 1]
             ELSE C4Off
    /\ \E mark \in BOOLEAN :
          c8' = IF c8.on /\ ~mark THEN [c8 EXCEPT !.bal = @ + 1, !.n = @ + 1]
                ELSE IF entities # <<>>
                THEN [on |-> TRUE, depth |-> Len(entities),
                      cur |-> Top(entities), bal |-> 1, n |-> 1]
                ELSE C8Off
    /\ UNCHANGED <<context_missing, header, segs, setUsed>>

CloseSubsegment ==
    /\ LET r == end_subsegment IN
       /\ Apply("end_subsegment", None, r)
       /\ c4' = IF c4.phase = "run" /\ c4.bal > 0
                THEN [c4 EXCEPT !.bal = @ - 1, !.ok = @ /\ (r.flag = "true")]
                ELSE C4Off
    /\ c3' = C3Off
    /\ c8' = IF c8.on /\ c8.bal > 0 THEN [c8 EXCEPT !.bal = @ - 1] ELSE C8Off
    /\ opened' = StillOpen(end_subsegment)
    /\ UNCHANGED <<context_missing, header, nextId, segs, setUsed>>

GetCurrentEntity ==
    /\ LET r == get_trace_entity(entities, context_missing) IN
       last' = Outcome("get_trace_entity", None, r.ret, "none", r.raised,
                       r.logged, r.missing, 0)
    /\ c3' = IF c3.phase = 2 THEN [c3 EXCEPT !.phase = 3] ELSE C3Off
    /\ c4' = C4Off
    /\ c8' = C8Off
    /\ construction' = Called
    /\ UNCHANGED <<prog, opened, setUsed>>

\* the trace entities a caller can hand to set_trace_entity
SetInputs ==
    {SegmentOf(s) : s \in SegInputs}
      \cup {e \in Range(entities) \cup Range(subsegments) :
               e.kind \in {"Mimic", "Subsegment"}}
      \cup JustClosed
      \cup (IF nextId <= MaxObj THEN {Subsegment(nextId, NoRef)} ELSE {})
      \cup (IF segment # 0 THEN {FacadeSegment(segment)} ELSE {})

\* whether the call constructs a new object (a MimicSegment, or the caller's
\* new Subsegment)
IsNew(e) == e.kind = "Segment" \/ (e.kind = "Subsegment" /\ e.id = nextId)

SetCurrentEntity(e) ==
    /\ IsNew(e) => nextId <= MaxObj
    /\ Apply("set_trace_entity", e, set_trace_entity(e))
    /\ nextId' = IF IsNew(e) THEN nextId + 1 ELSE nextId
    /\ segs' = IF e.kind = "Segment" /\ e.id > segs THEN e.id ELSE segs
    /\ opened' = <<>>
    /\ setUsed' = TRUE
    /\ c3' = C3Off
    /\ c4' = C4Off
    /\ c8' = C8Off
    /\ UNCHANGED <<context_missing, header>>

\* context_missing.setter
SetContextMissing(value) ==
    /\ value # context_missing
    /\ context_missing' = value
    /\ last' = Outcome("context_missing", None, None, value, FALSE, FALSE,
                       FALSE, 0)
    /\ construction' = Called
    /\ c3' = C3Off
    /\ c4' = C4Off
    /\ c8' = C8Off
    /\ UNCHANGED <<header, segment, subsegments, entities, closed, nextId,
                   segs, opened, setUsed>>

\* the Lambda container starts a new trace: the trace header changes.
\* Headers the context never refreshed on leave no mark on it, so the header
\* only moves on once the facade of the current one exists.
NewTraceHeader ==
    /\ header < MaxTrace
    /\ segment = header
    /\ header' = header + 1
    /\ UNCHANGED <<context_missing, segment, subsegments, entities, closed,
                   nextId, segs, hist>>

Next ==
    \/ \E s \in SegInputs : OpenSegment(s)
    \/ CloseSegment
    \/ OpenSubsegment
    \/ CloseSubsegment
    \/ GetCurrentEntity
    \/ \E e \in SetInputs : SetCurrentEntity(e)
    \/ \E value \in Strategies : SetContextMissing(value)
    \/ NewTraceHeader

\* ---------------------------------------------------------------- claims

C1_Post(s) ==
    LET got == get_trace_entity(entities, context_missing) IN
    /\ ~got.raised /\ ~got.missing
    /\ got.ret.kind = "Mimic" /\ got.ret.wraps = s
    /\ segment = header
    /\ got.ret.parent = Ref(FacadeSegment(segment))
    /\ Count(subsegments, got.ret) = 1

\* C1: whatever the state before, right after put_segment(s) the current
\* entity returned by get_trace_entity is a mimic segment wrapping s whose
\* parent is the refreshed facade, and the facade's subsegments hold it
\* exactly once.
C1_OpenSegmentProjects ==
    [][\A s \in SegIds :
          (last'.op = "put_segment" /\ nextId' # nextId /\ OpenSegment(s))
             => C1_Post(s)']_vars

C1_Witness ==
    /\ last.op = "put_segment"
    /\ Len(entities) >= 2 /\ Len(subsegments) >= 2
    /\ Top(entities) = last.ret

\* C2: every element of the facade's subsegments is a mimic segment, in
\* every reachable state (set_trace_entity being called with a raw segment,
\* a mimic segment or an ordinary subsegment).
C2_FacadeHoldsOnlyMimics ==
    \A i \in 1..Len(subsegments) : subsegments[i].kind = "Mimic"

\* C3: after put_segment(s) directly followed by end_segment, the facade's
\* subsegments do not hold the projection of s and the stack is what it was
\* before the put_segment; if it was empty, the next get_trace_entity runs
\* the context-missing strategy and does not return the closed projection.
C3_CloseRestoresPreOpen ==
    /\ c3.phase >= 2 =>
          /\ ~Contains(subsegments, c3.proj)
          /\ entities = c3.pre
    /\ (c3.phase = 3 /\ c3.pre = <<>>) =>
          /\ last.op = "get_trace_entity"
          /\ last.missing
          /\ last.ret # c3.proj

C3_Witness == c3.phase = 3 /\ c3.pre = <<>> /\ last.missing

\* C4: from an empty stack and a facade without subsegments, put_segment(S),
\* then a balanced, correctly nested run of put_subsegment/end_subsegment,
\* then end_segment leaves the facade's subsegments and the stack empty;
\* every end_subsegment of the run returns true, and whenever the run is
\* balanced the current entity is the projection of S.
C4_ScenarioEndsEmpty ==
    /\ c4.phase # "off" => c4.ok
    /\ (c4.phase = "run" /\ c4.bal = 0) => Top(entities) = c4.proj
    /\ c4.phase = "done" => (entities = <<>> /\ subsegments = <<>>)

C4_Witness == c4.phase = "done" /\ c4.n >= 2

C6_MissingStrategyDispatch ==
    last.op = "get_trace_entity" =>
       IF entities = <<>>
       THEN /\ last.missing
            /\ last.ret = None
            /\ last.raised = (context_missing = "RUNTIME_ERROR")
            /\ last.logged = (context_missing = "LOG_ERROR")
       ELSE /\ last.ret = Top(entities)
            /\ ~last.missing /\ ~last.raised /\ ~last.logged

C6_Witness ==
    /\ last.op = "get_trace_entity" /\ entities = <<>>
    /\ context_missing = "LOG_ERROR" /\ last.logged

\* C7: after set_trace_entity(seg) with a raw segment seg, the facade's
\* subsegments are exactly the one projection of seg that became the current
\* entity, however many subsegments the facade held before.
C7_SetSegmentOverwrites ==
    (last.op = "set_trace_entity" /\ last.arg.kind = "Segment") =>
       /\ Len(subsegments) = 1
       /\ subsegments[1] = last.ret
       /\ last.ret.kind = "Mimic" /\ last.ret.wraps = last.arg.id
       /\ Top(entities) = last.ret

C7_Witness ==
    /\ last.op = "set_trace_entity" /\ last.arg.kind = "Segment"
    /\ last.pre >= 2

\* C8: a balanced, correctly nested run of put_subsegment/end_subsegment
\* started on a non-empty stack ends with the stack depth and the current
\* entity it started with.
C8_SubsegmentRoundTrip ==
    (c8.on /\ c8.bal = 0) =>
       /\ Len(entities) = c8.depth
       /\ Top(entities) = c8.cur

C8_Witness == c8.on /\ c8.bal = 0 /\ c8.n >= 2 /\ c8.cur.kind = "Subsegment"

\* C9: as long as only open and close operations were called, the current
\* entity is the most recently opened entity that has not been closed, it is
\* not a closed entity, and the stack is empty when nothing is left open.
C9_CurrentIsLastUnclosed ==
    ~setUsed =>
       /\ IF opened = <<>> THEN entities = <<>>
          ELSE entities # <<>> /\ Top(entities) = opened[Len(opened)]
       /\ Top(entities) \notin closed

C9_Witness ==
    /\ ~setUsed /\ Len(opened) = 1
    /\ last.op = "end_segment" /\ last.ret.kind = "Mimic" /\ nextId > 2

\* C10: the stack never holds the facade segment and get_trace_entity never
\* returns it.
C10_FacadeNeverCurrent ==
    /\ Top(entities).kind # "Facade"
    /\ last.op = "get_trace_entity" => last.ret.kind # "Facade"

\* C11: a public operation raises only the missing-context failure and only
\* while the strategy is RUNTIME_ERROR; under any other strategy no call
\* raises, closes on an empty stack and mismatched closes included.
C11_OnlyRuntimeErrorRaises ==
    last.raised => (last.missing /\ context_missing = "RUNTIME_ERROR")

C11_Witness ==
    /\ last.op = "end_segment" /\ last.missing /\ ~last.raised
    /\ entities = <<>>
    /\ context_missing = "LOG_ERROR"

C12_State ==
    /\ construction.live =>
          context_missing = (IF construction.env # "unset"
                             THEN construction.env ELSE construction.dflt)
    /\ last.op = "context_missing" => context_missing_getter = last.flag
    /\ (last.op = "get_trace_entity" /\ entities = <<>>) =>
          /\ last.raised = (context_missing_getter = "RUNTIME_ERROR")
          /\ last.logged = (context_missing_getter = "LOG_ERROR")

C12_Step ==
    context_missing' # context_missing =>
       /\ last'.op = "context_missing"
       /\ last'.flag = context_missing'
       /\ entities' = entities
       /\ subsegments' = subsegments
       /\ segment' = segment

\* C12: right after construction the strategy is the environment value if
\* there is one and the constructor's default otherwise; the strategy changes
\* only through the property setter, which makes the getter return the value
\* set and changes neither the stack nor the facade's subsegments; a
\* get_trace_entity on an empty stack dispatches on the strategy in force
\* when it is called.
C12_StrategyConfiguration == []C12_State /\ [][C12_Step]_vars

C12_Witness ==
    /\ last.op = "context_missing" /\ last.flag = "RUNTIME_ERROR"
    /\ entities # <<>> /\ subsegments # <<>>

\* C13: end_segment called while the current entity is not a mimic segment
\* (a subsegment on top of the stack, an empty stack) leaves the facade and
\* its subsegments as they are, and raises only on an empty stack under
\* RUNTIME_ERROR; so the facade's subsegments change only when the entity
\* read before the base close is a mimic segment.
C13_CloseOfNonMimicKeepsFacade ==
    [][(last'.op = "end_segment" /\ Top(entities).kind # "Mimic"
          /\ CloseSegment) =>
          /\ subsegments' = subsegments
          /\ segment' = segment
          /\ last'.raised =
                (entities = <<>> /\ context_missing = "RUNTIME_ERROR")]_vars

C13_Witness ==
    /\ last.op = "end_segment" /\ last.ret.kind = "Subsegment"
    /\ ~last.raised
    /\ subsegments # <<>>

\* C14: put_subsegment and end_subsegment never change the facade's
\* subsegments, in any state; the subsegment opened becomes a child of the
\* entity that was current and the new current entity.
C14_SubsegmentOpsKeepFacade ==
    [][/\ (last'.op = "put_subsegment" /\ OpenSubsegment) =>
             /\ subsegments' = subsegments
             /\ Top(entities') = last'.ret
             /\ entities # <<>> => last'.ret.parent = Ref(Top(entities))
       /\ (last'.op = "end_subsegment" /\ CloseSubsegment) =>
             subsegments' = subsegments]_vars

\* C15: end_subsegment called while a mimic segment is the current entity
\* returns false and leaves the stack and the facade's subsegments as they
\* are; end_segment is what pops the mimic segment and removes it from the
\* facade.
C15_MimicNotClosedAsSubsegment ==
    [][/\ (last'.op = "end_subsegment" /\ Top(entities).kind = "Mimic"
             /\ CloseSubsegment) =>
             /\ last'.flag = "false" /\ ~last'.raised
             /\ entities' = entities
             /\ subsegments' = subsegments
             /\ Top(entities) \in closed' <=> Top(entities) \in closed
       /\ (last'.op = "end_segment" /\ Top(entities).kind = "Mimic"
             /\ CloseSegment) =>
             /\ entities' = Context_pop(entities)
             /\ ~Contains(subsegments', Top(entities))]_vars

C15_Witness ==
    /\ last.op = "end_subsegment" /\ last.flag = "false"
    /\ Top(entities).kind = "Mimic"
    /\ Contains(subsegments, Top(entities))

C16_Post(e) ==
    LET got == get_trace_entity(entities, context_missing) IN
    /\ IF e.kind = "Segment"
       THEN /\ last.ret.kind = "Mimic" /\ last.ret.wraps = e.id
            /\ last.ret.parent = Ref(FacadeSegment(header))
            /\ last.ret.id = nextId - 1
       ELSE last.ret = e
    /\ segment = header
    /\ entities = <<last.ret>>
    /\ got.ret = last.ret /\ ~got.missing /\ ~got.raised

\* C16: set_trace_entity(e) wraps e in a new mimic segment parented at the
\* refreshed facade exactly when e is a raw Segment and installs any other
\* entity as it is; the installed entity is the only one on the stack and is
\* what get_trace_entity returns next.
C16_SetWrapsOnlySegments ==
    [][\A e \in SetInputs :
          (last'.op = "set_trace_entity" /\ last'.arg = e
             /\ SetCurrentEntity(e)) => C16_Post(e)']_vars

C16_Witness ==
    /\ last.op = "set_trace_entity" /\ last.arg.kind = "Mimic"
    /\ last.ret = last.arg /\ entities = <<last.arg>>

\* ------------------------------------------- classification on its own
\* every entity of every kind a context can be asked to classify
ParentRefs ==
    {NoRef} \cup {<<k, i>> : k \in {"Mimic", "Subsegment"}, i \in 1..MaxObj}
            \cup {<<"Facade", f>> : f \in 1..MaxTrace}

EntityInputs ==
    {None} \cup {SegmentOf(s) : s \in SegIds}
           \cup {FacadeSegment(f) : f \in 1..MaxTrace}
           \cup {MimicSegment(i, f, s) : i \in 1..MaxObj, f \in 1..MaxTrace,
                                         s \in SegIds}
           \cup {Subsegment(i, p) : i \in 1..MaxObj, p \in ParentRefs}

InitClassify ==
    /\ \E env \in Strategies \cup {"unset"}, dflt \in Strategies :
          /\ construction = [live |-> TRUE, env |-> env, dflt |-> dflt]
          /\ context_missing = init_strategy(env, dflt)
    /\ header = 1
    /\ segment = 0
    /\ subsegments = <<>>
    /\ entities = <<>>
    /\ closed = {}
    /\ nextId = 1
    /\ segs = 0
    /\ \E e \in EntityInputs :
          last = Outcome("init", e, None, "none", FALSE, FALSE, FALSE, 0)
    /\ opened = <<>>
    /\ setUsed = FALSE
    /\ c3 = C3Off
    /\ c4 = C4Off
    /\ c8 = C8Off

\* self._is_subsegment(entity) applied to the entity drawn
Classify ==
    /\ last.op = "init"
    /\ last' = [last EXCEPT !.op = "_is_subsegment",
                            !.flag = IF _is_subsegment(last.arg)
                                     THEN "true" ELSE "false"]
    /\ UNCHANGED <<prog, opened, setUsed, c3, c4, c8, construction>>

SpecClassify == InitClassify /\ [][Classify]_vars

\* C17: _is_subsegment(e) is true exactly for the entities that have the
\* generic subsegment capability and are not mimic segments: false for every
\* mimic segment, for raw segments, for the facade and for no entity, true
\* for ordinary subsegments.
C17_ClassifyAsSubsegment ==
    last.op = "_is_subsegment" =>
       /\ last.arg.kind = "Mimic" => last.flag = "false"
       /\ last.arg.kind \in {"Segment", "Facade", "None"} => last.flag = "false"
       /\ last.arg.kind = "Subsegment" => last.flag = "true"

C17_Witness ==
    /\ last.op = "_is_subsegment" /\ last.arg.kind = "Mimic"
    /\ last.arg.parent # NoRef
    /\ last.flag = "false"

\* C18: every call of put_segment, end_segment, put_subsegment,
\* end_subsegment, get_trace_entity and set_trace_entity refreshes the facade:
\* after the call the facade held is the one of the container's current
\* trace header.
C18_RefreshEveryCall ==
    [][header' = header => segment' = header]_vars

\* C18 (amended): put_segment, set_trace_entity and an end_segment whose
\* current entity is a mimic segment refresh the facade before they touch its
\* subsegments, so what they touch belongs to the facade of the current trace
\* header; put_subsegment, end_subsegment, get_trace_entity and an end_segment
\* on anything else do not refresh.
C18_RefreshWhenFacadeTouched ==
    [][header' = header =>
          IF \/ last'.op \in {"put_segment", "set_trace_entity"}
             \/ (last'.op = "end_segment" /\ Top(entities).kind = "Mimic")
          THEN /\ segment' = header
               /\ segment # header =>
                     subsegments' = IF last'.op = "end_segment" THEN <<>>
                                    ELSE <<last'.ret>>
          ELSE segment' = segment]_vars

C18_Witness ==
    /\ last.op = "end_segment" /\ last.ret.kind = "Mimic"
    /\ last.ret.parent # Ref(FacadeSegment(segment))
    /\ segment = header

\* C19: with a stable facade (the trace header never changed), whenever the
\* current entity is a mimic segment it is in the facade's subsegments exactly
\* once, and no mimic segment that end_segment closed is in the facade's
\* subsegments or in the entities.
C19_StableFacadeInvariant ==
    header = 1 =>
        /\ Top(entities).kind = "Mimic" =>
               Count(subsegments, Top(entities)) = 1
        /\ \A e \in closed :
               e.kind = "Mimic" =>
                   e \notin Range(subsegments) \cup Range(entities)

C19_State ==
    header = 1 =>
        (Top(entities).kind = "Mimic" =>
             Count(subsegments, Top(entities)) = 1)

C19_Step ==
    header' = 1 =>
        /\ (last'.op = "end_segment" /\ last'.ret.kind = "Mimic") =>
               last'.ret \notin Range(subsegments') \cup Range(entities')
        /\ \A e \in closed' \ closed :
               e.kind = "Mimic" =>
                   /\ last'.op = "set_trace_entity" /\ last'.arg = e
                   /\ entities' = <<e>> /\ subsegments' = <<e>>

\* C19 (amended): with a stable facade, a current mimic segment is in the
\* facade's subsegments exactly once; a mimic segment that end_segment closed
\* is, when the call returns, neither in the facade's subsegments nor in the
\* entities; a closed mimic segment is there again only when set_trace_entity
\* is called with it, which installs it as the only entity and only child.
C19_ClosedReturnsOnlyBySet ==
    []C19_State /\ [][C19_Step]_vars

C19_Witness ==
    /\ header = 1
    /\ last.op = "set_trace_entity" /\ last.arg.kind = "Mimic"
    /\ last.arg \in closed
    /\ Top(entities) = last.arg
    /\ Count(subsegments, last.arg) = 1

Spec == Init /\ [][Next]_vars
====
